---- MODULE Spec2Model ----
(***************************************************************************)
(* Behavioural model of the macro86 device models: the static RAM          *)
(* (source/SRam.py, source/sram.py), the EEPROM (source/eeprom.py) and the *)
(* 74x373 transparent latch (source/TransparentLatch.py,                   *)
(* source/transparent_latch.py), with their constructors and the script    *)
(* entry point util.main.                                                  *)
(*                                                                         *)
(* One step of the model is one stretch of a simulator process between two *)
(* `yield Delay(...)`: the process assigns any of the input signals, the   *)
(* assignments take effect together, the clocked statement of the device   *)
(* runs if its clock signal made the active transition, and the            *)
(* combinational statements settle on the resulting values.                *)
(***************************************************************************)
EXTENDS Integers, FiniteSets

\* Widths of the simulated devices: SRam(16, 4), EEProm(16, 4),
\* TransparentLatch(16).
data_bits == 16
addr_bits == 4
bits == 16

\* The data the simulation and formal harnesses use.
Data1111 == 4369
Data2222 == 8738
Data1234 == 4660
Data5678 == 22136

\* Largest small value the harness drives onto a data port besides the
\* values above.
MaxData == 1

\* Largest address the harness drives.
MaxAddr == 1

Bit == {0, 1}
DataVals == (0..MaxData) \cup {Data1111, Data2222}
Cells == 0..(2^addr_bits - 1)
AddrVals == 0..MaxAddr
LatchVals == (0..MaxData) \cup {Data1234, Data5678}

VARIABLES
    \* SRam ports and storage
    addr, data_in, data_out, _oe, _we, mem,
    \* the value last committed at each address by a rising edge of _we, as
    \* a set: empty before the first commit there
    last_write,
    \* the levels of _oe at which a commit has happened so far
    commit_oe,
    \* the simulation process of SRam.sim: {k} while the run so far is the
    \* first k stretches of the process, {} once it is not; scen_oe is the
    \* level of _oe the run holds while writing
    scen, scen_oe,
    \* whether a stretch of the process has ended with _we at 0
    we_low,
    \* EEProm ports and storage
    a, io_in, io_out, rom_oe, rom_we, rom_mem,
    \* TransparentLatch ports and storage
    d, q, le, latch_oe, internal_reg,
    \* Past(latch.d), Past(latch.le) of the latch's formal harness
    past_d, past_le,
    \* Past(latch._oe), Past(latch.q), Past(latch.q, 2), Past(latch.le, 2)
    past_oe, past_q, past2_q, past2_le,
    \* the simulation process of TransparentLatch.sim, as scen and scen_oe
    \* are for SRam.sim
    lscen, lscen_oe,
    \* a call of a device constructor: the class, the arguments
    \* <<data_bits, addr_bits>> (<<bits, 0>> for the latch), the statement it
    \* is at, the ports created so far and whether the cells exist
    ctor_cls, ctor_args, ctor_pc, ctor_ports, ctor_mem,
    \* a run of util.main: the source file run as a script, sys.argv[1:], the
    \* statement it is at, what formal() returned and the netlist files
    \* written so far
    main_file, main_argv, main_pc, main_design, written,
    \* the value of d at the last falling edge of le, as a set: empty before
    \* the first falling edge
    captured

sramVars == <<addr, data_in, data_out, _oe, _we, mem, last_write,
              commit_oe, scen, scen_oe, we_low>>
romVars == <<a, io_in, io_out, rom_oe, rom_we, rom_mem>>
latchVars == <<d, q, le, latch_oe, internal_reg, past_d, past_le, captured,
               past_oe, past_q, past2_q, past2_le, lscen, lscen_oe>>
ctorVars == <<ctor_cls, ctor_args, ctor_pc, ctor_ports, ctor_mem>>
mainVars == <<main_file, main_argv, main_pc, main_design, written>>
vars == <<addr, data_in, data_out, _oe, _we, mem, last_write,
          commit_oe, scen, scen_oe, we_low,
          a, io_in, io_out, rom_oe, rom_we, rom_mem,
          d, q, le, latch_oe, internal_reg, past_d, past_le, captured,
          past_oe, past_q, past2_q, past2_le, lscen, lscen_oe,
          ctor_cls, ctor_args, ctor_pc, ctor_ports, ctor_mem,
          main_file, main_argv, main_pc, main_design, written>>

----------------------------------------------------------------------------
\* SRam

\* Signal(...) resets to 0; the cells are reset_less but power on at 0.
SRamInit_WeHigh ==
    /\ addr = 0
    /\ data_in = 0
    /\ _oe = 0
    /\ _we = 1
    /\ mem = [c \in Cells |-> 0]
    /\ data_out = 0
    /\ last_write = [c \in Cells |-> {}]
    /\ commit_oe = {}
    /\ scen = {0}
    /\ scen_oe = 0
    /\ we_low = FALSE

SRamInit ==
    /\ addr = 0
    /\ data_in = 0
    /\ _oe = 0
    /\ _we = 0
    /\ mem = [c \in Cells |-> 0]
    /\ data_out = 0
    /\ last_write = [c \in Cells |-> {}]
    /\ commit_oe = {}
    /\ scen = {0}
    /\ scen_oe = 0
    /\ we_low = FALSE

\* m.d.we_clk += __mem[addr].eq(data_in), we_clk clocked by the positive
\* edge of _we: the statement reads the signals as they are at the edge.
WeClk_NegEdge ==
    IF _we = 1 /\ _we' = 0 THEN [mem EXCEPT ![addr'] = data_in'] ELSE mem

WeClk_Mirror ==
    IF _we = 0 /\ _we' = 1 THEN [c \in Cells |-> data_in'] ELSE mem

WeClk_Level ==
    IF _we' = 1 THEN [mem EXCEPT ![addr'] = data_in'] ELSE mem

WeClk_Stale ==
    IF _we = 0 /\ _we' = 1 THEN [mem EXCEPT ![addr] = data_in] ELSE mem

WeClk_OeGated ==
    IF _we = 0 /\ _we' = 1 /\ _oe' = 0
    THEN [mem EXCEPT ![addr'] = data_in'] ELSE mem

WeClk ==
    IF _we = 0 /\ _we' = 1 THEN [mem EXCEPT ![addr'] = data_in'] ELSE mem

\* m.d.comb += data_out.eq(0); with m.If(~_oe & _we): data_out.eq(__mem[addr])
ReadOut_NoWeGate ==
    IF _oe' = 0 THEN mem'[addr'] ELSE 0

ReadOut_PreCommit ==
    IF _oe' = 0 /\ _we' = 1 THEN mem[addr'] ELSE 0

ReadOut ==
    IF _oe' = 0 /\ _we' = 1 THEN mem'[addr'] ELSE 0

\* The stretches of SRam.sim's process between two Delays, as the port
\* values <<addr, data_in, _oe, _we>> each leaves behind; x is the level of
\* _oe during the writes (1 in the source) and 1 - x the level of the reads.
SimStretch(k, x) ==
    CASE k = 1 -> <<0, Data1111, x, 0>>
      [] k = 2 -> <<0, Data1111, x, 1>>
      [] k = 3 -> <<1, Data2222, x, 0>>
      [] k = 4 -> <<1, Data2222, x, 1>>
      [] k = 5 -> <<0, 0, 1 - x, 1>>
      [] k = 6 -> <<0, 0, x, 1>>
      [] k = 7 -> <<1, 0, 1 - x, 1>>
      [] k = 8 -> <<1, 0, x, 1>>

SimLength == 8

\* Whether the step continues the simulation process.
SimFollows(k) ==
    /\ k < SimLength
    /\ <<addr', data_in', _oe', _we'>> =
           SimStretch(k + 1, IF k = 0 THEN _oe' ELSE scen_oe)

\* The device's reaction to the new port values, with the bookkeeping.
SRamEval ==
    /\ mem' = WeClk
    /\ data_out' = ReadOut
    /\ last_write' = IF _we = 0 /\ _we' = 1
                     THEN [last_write EXCEPT ![addr'] = {data_in'}]
                     ELSE last_write
    /\ commit_oe' = IF _we = 0 /\ _we' = 1
                    THEN commit_oe \cup {_oe'}
                    ELSE commit_oe
    /\ scen' = {k + 1 : k \in {j \in scen : SimFollows(j)}}
    /\ scen_oe' = IF scen' = {} THEN 0
                  ELSE IF scen = {0} THEN _oe' ELSE scen_oe
    /\ we_low' = (we_low \/ _we' = 0)

\* The harness assigns the input ports and lets time pass.
SRamStep ==
    /\ addr' \in AddrVals
    /\ data_in' \in DataVals
    /\ _oe' \in Bit
    /\ _we' \in Bit
    /\ SRamEval
    /\ UNCHANGED romVars
    /\ UNCHANGED latchVars
    /\ UNCHANGED ctorVars
    /\ UNCHANGED mainVars

----------------------------------------------------------------------------
\* EEProm

EEPromInit ==
    /\ a = 0
    /\ io_in = 0
    /\ rom_oe = 0
    /\ rom_we = 0
    /\ rom_mem = [c \in Cells |-> 0]
    /\ io_out = 0

\* m.d.we_clk += __mem[a].eq(io_in), we_clk clocked by the positive edge of
\* _we
RomWeClk_NegEdge ==
    IF rom_we = 1 /\ rom_we' = 0
    THEN [rom_mem EXCEPT ![a'] = io_in'] ELSE rom_mem

RomWeClk ==
    IF rom_we = 0 /\ rom_we' = 1
    THEN [rom_mem EXCEPT ![a'] = io_in'] ELSE rom_mem

\* m.d.comb += io_out.eq(0); with m.If(~_oe & _we): io_out.eq(__mem[a])
RomReadOut ==
    IF rom_oe' = 0 /\ rom_we' = 1 THEN rom_mem'[a'] ELSE 0

EEPromEval ==
    /\ rom_mem' = RomWeClk
    /\ io_out' = RomReadOut

\* The harness drives both memories with the same port values.
PairStep ==
    /\ addr' \in AddrVals
    /\ data_in' \in DataVals
    /\ _oe' \in Bit
    /\ _we' \in Bit
    /\ a' = addr'
    /\ io_in' = data_in'
    /\ rom_oe' = _oe'
    /\ rom_we' = _we'
    /\ SRamEval
    /\ EEPromEval
    /\ UNCHANGED latchVars
    /\ UNCHANGED ctorVars
    /\ UNCHANGED mainVars

----------------------------------------------------------------------------
\* TransparentLatch

\* Signal(...) resets to 0, and so does internal_reg (reset=0); q is settled
\* before the process starts.
LatchInit_RegSet ==
    /\ d = 0
    /\ le = 0
    /\ latch_oe = 0
    /\ internal_reg = 1
    /\ q = 1
    /\ past_d = 0
    /\ past_le = 0
    /\ captured = {}
    /\ past_oe = 0
    /\ past_q = 0
    /\ past2_q = 0
    /\ past2_le = 0
    /\ lscen = {0}
    /\ lscen_oe = 0

LatchInit ==
    /\ d = 0
    /\ le = 0
    /\ latch_oe = 0
    /\ internal_reg = 0
    /\ q = 0
    /\ past_d = 0
    /\ past_le = 0
    /\ captured = {}
    /\ past_oe = 0
    /\ past_q = 0
    /\ past2_q = 0
    /\ past2_le = 0
    /\ lscen = {0}
    /\ lscen_oe = 0

\* m.d.le_clk += internal_reg.eq(d), le_clk clocked by the negative edge of le
LeClk_PosEdge ==
    IF le = 0 /\ le' = 1 THEN d' ELSE internal_reg

LeClk_OeGated ==
    IF le = 1 /\ le' = 0 /\ latch_oe' = 0 THEN d' ELSE internal_reg

LeClk ==
    IF le = 1 /\ le' = 0 THEN d' ELSE internal_reg

\* m.d.comb += q.eq(Mux(_oe, 0, internal_reg)); with m.If(le & ~_oe): q.eq(d)
LatchQ_NoOe ==
    IF le' = 1 THEN d' ELSE IF latch_oe' = 1 THEN 0 ELSE internal_reg'

LatchQ_Lag ==
    IF le' = 1 /\ latch_oe' = 0 THEN d
    ELSE IF latch_oe' = 1 THEN 0 ELSE internal_reg'

LatchQ_HoldPrev ==
    IF le' = 1 /\ latch_oe' = 0 THEN d'
    ELSE IF latch_oe' = 1 THEN 0 ELSE internal_reg

LatchQ ==
    IF le' = 1 /\ latch_oe' = 0 THEN d'
    ELSE IF latch_oe' = 1 THEN 0 ELSE internal_reg'

\* The stretches of TransparentLatch.sim's process between two Delays, as
\* the port values <<d, le, _oe>> each leaves behind; x is the level of _oe
\* the process sets first (1 in the source) and 1 - x the level it sets last.
LatchSimStretch(k, x) ==
    CASE k = 1 -> <<0, 1, x>>
      [] k = 2 -> <<Data1234, 1, x>>
      [] k = 3 -> <<Data5678, 1, x>>
      [] k = 4 -> <<Data5678, 0, x>>
      [] k = 5 -> <<Data1234, 0, x>>
      [] k = 6 -> <<Data1234, 1, x>>
      [] k = 7 -> <<Data1234, 1, 1 - x>>

LatchSimLength == 7

LatchSimFollows(k) ==
    /\ k < LatchSimLength
    /\ <<d', le', latch_oe'>> =
           LatchSimStretch(k + 1, IF k = 0 THEN latch_oe' ELSE lscen_oe)

LatchStep ==
    /\ d' \in LatchVals
    /\ le' \in Bit
    /\ latch_oe' \in Bit
    /\ internal_reg' = LeClk
    /\ q' = LatchQ
    /\ past_d' = d
    /\ past_le' = le
    /\ captured' = IF le = 1 /\ le' = 0 THEN {d'} ELSE captured
    /\ past_oe' = latch_oe
    /\ past_q' = q
    /\ past2_q' = past_q
    /\ past2_le' = past_le
    /\ lscen' = {k + 1 : k \in {j \in lscen : LatchSimFollows(j)}}
    /\ lscen_oe' = IF lscen' = {} THEN 0
                   ELSE IF lscen = {0} THEN latch_oe' ELSE lscen_oe
    /\ UNCHANGED sramVars
    /\ UNCHANGED romVars
    /\ UNCHANGED ctorVars
    /\ UNCHANGED mainVars

----------------------------------------------------------------------------
\* Construction: SRam.__init__ (SRam.py and sram.py), EEProm.__init__ and
\* TransparentLatch.__init__, one action per statement group.

MemClasses == {"SRam", "sram", "EEProm"}
Classes == MemClasses \cup {"TransparentLatch"}

\* assert addr_bits <= 32 (SRam.py, eeprom.py), assert addr_bits <= 16 (sram.py)
MaxAddrBits == 32
MaxAddrBitsSimple == 16

Ceiling(cls) == IF cls = "sram" THEN MaxAddrBitsSimple ELSE MaxAddrBits

\* Largest magnitude of the small widths a caller passes; the widths around
\* the two ceilings are passed as well.
MaxWidthArg == 2

WidthArgs == (-MaxWidthArg)..MaxWidthArg
AddrWidthArgs ==
    WidthArgs \cup {MaxAddrBitsSimple - 1, MaxAddrBitsSimple, MaxAddrBitsSimple + 1,
                    MaxAddrBits - 1, MaxAddrBits, MaxAddrBits + 1}

MemPorts == {"addr", "data_in", "data_out", "_oe", "_we"}
LatchPorts == {"d", "q", "le", "_oe"}

CtorInit ==
    /\ ctor_cls = "SRam"
    /\ ctor_args = <<data_bits, addr_bits>>
    /\ ctor_pc = "idle"
    /\ ctor_ports = {}
    /\ ctor_mem = FALSE

\* SRam(data_bits, addr_bits), EEProm(data_bits, addr_bits),
\* TransparentLatch(bits)
CtorCall ==
    /\ ctor_pc \in {"idle", "done", "raised"}
    /\ \E cls \in Classes, db \in WidthArgs, ab \in AddrWidthArgs :
          /\ ctor_cls' = cls
          /\ ctor_args' = IF cls \in MemClasses THEN <<db, ab>> ELSE <<db, 0>>
    /\ ctor_pc' = "assert_data"
    /\ ctor_ports' = {}
    /\ ctor_mem' = FALSE
    /\ UNCHANGED <<sramVars, romVars, latchVars, mainVars>>

\* assert data_bits > 0 / assert bits > 0
CtorAssertData ==
    /\ ctor_pc = "assert_data"
    /\ ctor_pc' = IF ctor_args[1] > 0
                  THEN (IF ctor_cls \in MemClasses THEN "assert_addr" ELSE "ports")
                  ELSE "raised"
    /\ UNCHANGED <<ctor_cls, ctor_args, ctor_ports, ctor_mem>>
    /\ UNCHANGED <<sramVars, romVars, latchVars, mainVars>>

\* assert addr_bits > 0
CtorAssertAddr_NonNegative ==
    /\ ctor_pc = "assert_addr"
    /\ ctor_pc' = IF ctor_args[2] >= 0 THEN "assert_max" ELSE "raised"
    /\ UNCHANGED <<ctor_cls, ctor_args, ctor_ports, ctor_mem>>
    /\ UNCHANGED <<sramVars, romVars, latchVars, mainVars>>

CtorAssertAddr ==
    /\ ctor_pc = "assert_addr"
    /\ ctor_pc' = IF ctor_args[2] > 0 THEN "assert_max" ELSE "raised"
    /\ UNCHANGED <<ctor_cls, ctor_args, ctor_ports, ctor_mem>>
    /\ UNCHANGED <<sramVars, romVars, latchVars, mainVars>>

\* assert addr_bits <= 32 / assert addr_bits <= 16
CtorAssertMax ==
    /\ ctor_pc = "assert_max"
    /\ ctor_pc' = IF ctor_args[2] <= Ceiling(ctor_cls) THEN "ports" ELSE "raised"
    /\ UNCHANGED <<ctor_cls, ctor_args, ctor_ports, ctor_mem>>
    /\ UNCHANGED <<sramVars, romVars, latchVars, mainVars>>

\* self.addr = Signal(addr_bits) ... self.addr_bits = addr_bits;
\* self.d = Signal(bits) ... self.bits = bits
CtorPorts ==
    /\ ctor_pc = "ports"
    /\ ctor_ports' = IF ctor_cls \in MemClasses THEN MemPorts ELSE LatchPorts
    /\ ctor_pc' = IF ctor_cls \in MemClasses THEN "mem" ELSE "done"
    /\ UNCHANGED <<ctor_cls, ctor_args, ctor_mem>>
    /\ UNCHANGED <<sramVars, romVars, latchVars, mainVars>>

\* self.__mem = Array([Signal(data_bits, reset_less=True) for _ in
\* range(2**addr_bits)])
CtorMem ==
    /\ ctor_pc = "mem"
    /\ ctor_mem' = TRUE
    /\ ctor_pc' = "done"
    /\ UNCHANGED <<ctor_cls, ctor_args, ctor_ports>>
    /\ UNCHANGED <<sramVars, romVars, latchVars, mainVars>>

----------------------------------------------------------------------------
\* util.main(cls, filename), as each source file calls it when run as a
\* script, one action per statement.

Files == {"SRam.py", "sram.py", "eeprom.py",
          "TransparentLatch.py", "transparent_latch.py"}

\* The filename each file passes to main.
Netlist(f) ==
    CASE f = "SRam.py" -> "out/SRam.il"
      [] f = "sram.py" -> "sram.il"
      [] f = "eeprom.py" -> "eeprom.il"
      [] f = "TransparentLatch.py" -> "out/TransparentLatch.il"
      [] f = "transparent_latch.py" -> "transparent_latch.il"

\* The device classes bound in each file: its own class only, no file imports
\* another's.
Bound_WithEEProm(f) ==
    CASE f = "SRam.py" -> {"SRam", "EEProm"}
      [] f = "sram.py" -> {"SRam"}
      [] f = "eeprom.py" -> {"EEProm"}
      [] f = "TransparentLatch.py" -> {"TransparentLatch"}
      [] f = "transparent_latch.py" -> {"TransparentLatch"}

Bound(f) ==
    CASE f = "SRam.py" -> {"SRam"}
      [] f = "sram.py" -> {"SRam"}
      [] f = "eeprom.py" -> {"EEProm"}
      [] f = "TransparentLatch.py" -> {"TransparentLatch"}
      [] f = "transparent_latch.py" -> {"TransparentLatch"}

\* cls.formal(): `assert False` in sram.py, eeprom.py and
\* transparent_latch.py; SRam.py builds EEProm(16, 4) and returns the module
\* unverified; TransparentLatch.py returns the module with its assertions.
Formal(f) ==
    CASE f \in {"sram.py", "eeprom.py", "transparent_latch.py"} -> "AssertionError"
      [] f = "SRam.py" ->
            IF "EEProm" \in Bound(f) THEN "design" ELSE "NameError"
      [] f = "TransparentLatch.py" -> "design"

\* cls.sim(): `assert False` in transparent_latch.py, a simulation run in the
\* others.
Sim(f) ==
    IF f = "transparent_latch.py" THEN "AssertionError" ELSE "done"

Argvs == {<<>>, <<"sim">>, <<"gen">>, <<"help">>, <<"sim", "gen">>, <<"gen", "sim">>}

MainInit ==
    /\ main_file = "SRam.py"
    /\ main_argv = <<>>
    /\ main_pc = "idle"
    /\ main_design = FALSE
    /\ written = {}

\* python <file> <argv>
MainCall ==
    /\ main_pc \in {"idle", "exit0", "exit1", "raised"}
    /\ main_file' \in Files
    /\ main_argv' \in Argvs
    /\ main_pc' = "args"
    /\ main_design' = FALSE
    /\ UNCHANGED written
    /\ UNCHANGED <<sramVars, romVars, latchVars, ctorVars>>

\* if len(sys.argv) < 2 or (sys.argv[1] != "sim" and sys.argv[1] != "gen"):
\*     print usage; sys.exit(1)
MainArgs ==
    /\ main_pc = "args"
    /\ main_pc' = IF main_argv = <<>> \/ main_argv[1] \notin {"sim", "gen"}
                  THEN "exit1"
                  ELSE IF main_argv[1] = "sim" THEN "sim" ELSE "formal"
    /\ UNCHANGED <<main_file, main_argv, main_design, written>>
    /\ UNCHANGED <<sramVars, romVars, latchVars, ctorVars>>

\* cls.sim()
MainSim ==
    /\ main_pc = "sim"
    /\ main_pc' = IF Sim(main_file) = "done" THEN "exit0" ELSE "raised"
    /\ UNCHANGED <<main_file, main_argv, main_design, written>>
    /\ UNCHANGED <<sramVars, romVars, latchVars, ctorVars>>

\* design, ports = cls.formal()
MainFormal ==
    /\ main_pc = "formal"
    /\ main_design' = (Formal(main_file) = "design")
    /\ main_pc' = IF Formal(main_file) = "design" THEN "convert" ELSE "raised"
    /\ UNCHANGED <<main_file, main_argv, written>>
    /\ UNCHANGED <<sramVars, romVars, latchVars, ctorVars>>

\* fragment = Fragment.get(design, None); output = rtlil.convert(...)
MainConvert ==
    /\ main_pc = "convert"
    /\ main_pc' = "write"
    /\ UNCHANGED <<main_file, main_argv, main_design, written>>
    /\ UNCHANGED <<sramVars, romVars, latchVars, ctorVars>>

\* with open(filename, "w") as f: f.write(output)
MainWrite ==
    /\ main_pc = "write"
    /\ written' = written \cup {Netlist(main_file)}
    /\ main_pc' = "exit0"
    /\ UNCHANGED <<main_file, main_argv, main_design>>
    /\ UNCHANGED <<sramVars, romVars, latchVars, ctorVars>>

----------------------------------------------------------------------------

Init == SRamInit /\ EEPromInit /\ LatchInit /\ CtorInit /\ MainInit

Next == SRamStep

Spec == Init /\ [][Next]_vars

LatchNext == LatchStep

LatchSpec == Init /\ [][LatchNext]_vars

PairNext == PairStep

PairSpec == Init /\ [][PairNext]_vars

CtorNext ==
    \/ CtorCall
    \/ CtorAssertData
    \/ CtorAssertAddr
    \/ CtorAssertMax
    \/ CtorPorts
    \/ CtorMem

CtorSpec == Init /\ [][CtorNext]_vars

MainNext ==
    \/ MainCall
    \/ MainArgs
    \/ MainSim
    \/ MainFormal
    \/ MainConvert
    \/ MainWrite

MainSpec == Init /\ [][MainNext]_vars

----------------------------------------------------------------------------
\* Properties of the SRam (checked under Spec)

WeRose == _we = 0 /\ _we' = 1

\* C1: a value committed at an address by a 0->1 transition of _we is what a
\* later read there (with _oe = 0 and _we = 1) puts on data_out, as long as no
\* other write to it came in between; data_out is then the stored cell.
C1_RoundTrip ==
    \A c \in Cells :
        \A v \in last_write[c] :
            (addr = c /\ _oe = 0 /\ _we = 1)
                => (data_out = v /\ data_out = mem[c])

\* A read of a non-zero value committed in an earlier step (data_in has moved
\* on since the commit).
C1_Witness ==
    /\ _oe = 0 /\ _we = 1
    /\ last_write[addr] # {}
    /\ data_out # 0
    /\ data_in # data_out
    /\ last_write[addr] = {data_out}

\* C2: data_out is the addressed cell when _oe = 0 and _we = 1, and 0
\* otherwise: 0 whenever _we = 0 and 0 whenever _oe = 1.
C2_OutputPath ==
    /\ data_out = (IF _oe = 0 /\ _we = 1 THEN mem[addr] ELSE 0)
    /\ (_we = 0 => data_out = 0)
    /\ (_oe = 1 => data_out = 0)

\* Output enabled during a write strobe over a non-zero cell: the bus is 0.
C2_Witness ==
    /\ _oe = 0 /\ _we = 0
    /\ mem[addr] # 0
    /\ data_out = 0

\* C3: a write committed at address a leaves every other cell as it was.
C3_WriteIsolation ==
    [][WeRose => \A b \in Cells \ {addr'} : mem'[b] = mem[b]]_vars

\* Two different non-zero values committed at two addresses are both stored.
C3_Witness ==
    \E b, c \in Cells :
        /\ b # c
        /\ mem[b] # 0 /\ mem[c] # 0
        /\ mem[b] # mem[c]
        /\ last_write[b] = {mem[b]}
        /\ last_write[c] = {mem[c]}

\* C4: the cells change only on a step where _we goes 0->1, and that step
\* makes exactly the one commit; every other step leaves all cells unchanged.
C4_EdgeNotLevel ==
    [][/\ ~WeRose => mem' = mem
       /\ WeRose => Cardinality({b \in Cells : mem'[b] # mem[b]}) <= 1]_vars

\* _we is held at 1 after a commit, data_in has changed, the cell has not.
C4_Witness ==
    /\ _we = 1
    /\ last_write[addr] = {mem[addr]}
    /\ data_in # mem[addr]

\* C5: on a 0->1 transition of _we the addressed cell becomes data_in, with
\* address and data_in as they are in the step of the edge.
C5_WriteSnapshot ==
    [][WeRose => mem'[addr'] = data_in']_vars

\* The only commit so far was at a non-zero address with non-zero data.
C5_Witness ==
    /\ _we = 1
    /\ addr # 0
    /\ data_in # 0
    /\ mem[addr] = data_in
    /\ last_write[addr] = {data_in}
    /\ \A b \in Cells \ {addr} : last_write[b] = {} /\ mem[b] = 0

----------------------------------------------------------------------------
\* Properties of the TransparentLatch (checked under LatchSpec)

\* C6: whenever _oe = 1, q = 0, whatever d, le and internal_reg are.
C6_OutputEnableOverride ==
    latch_oe = 1 => q = 0

C6_Witness ==
    /\ latch_oe = 1 /\ le = 1
    /\ d # 0 /\ internal_reg # 0
    /\ q = 0

\* C7: whenever le = 1 and _oe = 0, q is the value d has in that same step.
C7_Transparent ==
    (le = 1 /\ latch_oe = 0) => q = d

\* Transparent on a value that differs from the previous d and from the
\* register.
C7_Witness ==
    /\ le = 1 /\ latch_oe = 0
    /\ d # 0 /\ d # past_d /\ d # internal_reg
    /\ q = d

\* C8: internal_reg changes only on a step where le goes 1->0, where it
\* becomes the d of that step, whatever _oe is; every other step leaves it.
C8_Capture ==
    [][IF le = 1 /\ le' = 0
       THEN internal_reg' = d'
       ELSE internal_reg' = internal_reg]_vars

\* A non-zero value captured with the output disabled, d changed afterwards.
C8_Witness ==
    /\ internal_reg # 0
    /\ captured = {internal_reg}
    /\ latch_oe = 1
    /\ le = 0
    /\ d # internal_reg

\* C9 (as stated): after a 1->0 transition of le an observation with _oe = 0
\* and le = 0 shows the captured d, and q stays that value on the following
\* steps up to the next 1->0 transition of le.
C9_HoldAsStated ==
    [][/\ (le' = 0 /\ latch_oe' = 0) => \A v \in captured' : q' = v
       /\ (captured # {} /\ le = 0 /\ latch_oe = 0) => q' = q]_vars

\* C9 (amended): after a 1->0 transition of le, every observation of q made
\* with _oe = 0 and le = 0 before the next 1->0 transition is the d of the
\* transition step.
C9_HoldObserved ==
    (le = 0 /\ latch_oe = 0) => \A v \in captured : q = v

\* Holding a non-zero captured value while d shows something else.
C9_Witness ==
    /\ le = 0 /\ latch_oe = 0
    /\ q # 0
    /\ captured = {q}
    /\ d # q
    /\ past_d # q

\* C10: where _oe = 0 and le fell since the previous step, q is the d of
\* the previous step (Assert(q == Past(d)) under Fell(le)).
C10_FellAssert ==
    (latch_oe = 0 /\ past_le = 1 /\ le = 0) => q = past_d

\* C11: the cover of the formal harness can be hit: q = 0x1234 with le = 0
\* while two steps earlier q = 0x5678 with le = 0; and wherever it is hit, le
\* was 1 in the step between and 0x1234 is the value captured at the falling
\* edge of this step, replacing the held 0x5678.
CoverHit ==
    /\ q = Data1234
    /\ le = 0
    /\ past2_q = Data5678
    /\ past2_le = 0

C11_CoverByRecapture ==
    CoverHit => (past_le = 1 /\ captured = {Data1234} /\ latch_oe = 0)

C11_CoverReached ==
    /\ CoverHit
    /\ internal_reg = Data1234

\* C13 (as stated): running the simulation process with the output enable
\* deasserted (_oe = 1), q shows 0x1234 and 0x5678 as d is driven with le = 1,
\* stays 0x5678 once le is 0 and d is driven to 0x1234, and is 0x1234 again
\* when le is back at 1.
LatchScenario(x) ==
    /\ (lscen = {2} /\ lscen_oe = x) => q = Data1234
    /\ (lscen = {3} /\ lscen_oe = x) => q = Data5678
    /\ (lscen = {4} /\ lscen_oe = x) => (q = Data5678 /\ internal_reg = Data5678)
    /\ (lscen = {5} /\ lscen_oe = x) => q = Data5678
    /\ (lscen = {6} /\ lscen_oe = x) => q = Data1234

C13_ScenarioOeDeasserted ==
    LatchScenario(1)

\* C13 (amended): the same run with the output enable asserted (_oe = 0)
\* shows those values on q.
C13_ScenarioOeAsserted ==
    LatchScenario(0)

\* The hold stretch of the run: d is back at 0x1234, q still shows 0x5678.
C13_Witness ==
    /\ lscen = {5} /\ lscen_oe = 0
    /\ d = Data1234
    /\ q = Data5678

\* C17: the latch starts with le = 0 and internal_reg = 0, and until the
\* first 1->0 transition of le, q = 0 wherever le = 0, whatever d and _oe are.
C17_InitialHold ==
    captured = {} => (internal_reg = 0 /\ (le = 0 => q = 0))

\* Before any capture, with the output enabled and d driven to a new value.
C17_Witness ==
    /\ captured = {}
    /\ le = 0 /\ latch_oe = 0
    /\ d # 0 /\ past_d # d
    /\ q = 0

\* C18: where le = 0 and _oe = 0 at this and the previous step, q is the q
\* of the previous step (the docstring's `0: q := Past(q)`).
C18_HoldPastQ ==
    (le = 0 /\ latch_oe = 0 /\ past_oe = 0) => q = past_q

----------------------------------------------------------------------------
\* Further properties of the SRam (checked under Spec)

\* C12 (as stated): running the simulation process with the output enable
\* asserted (_oe = 0) during the writes and deasserted (_oe = 1) for the
\* reads, the read of address 0 shows 0x1111 and the read of address 1 shows
\* 0x2222.
MemScenario(x) ==
    /\ (scen = {5} /\ scen_oe = x) => (addr = 0 /\ data_out = Data1111)
    /\ (scen = {7} /\ scen_oe = x) => (addr = 1 /\ data_out = Data2222)

C12_ScenarioReadDeasserted ==
    MemScenario(0)

\* C12 (amended): the run with the output enable deasserted (_oe = 1) during
\* the writes and asserted (_oe = 0) for the reads shows 0x1111 and 0x2222.
C12_ScenarioReadAsserted ==
    MemScenario(1)

\* The second read of the run.
C12_Witness ==
    /\ scen = {7} /\ scen_oe = 1
    /\ _oe = 0 /\ _we = 1 /\ data_in = 0
    /\ data_out = Data2222
    /\ mem[0] = Data1111

\* C19: in the step where _we goes 0->1 with _oe = 0, the settled data_out
\* is the data_in just committed.
C19_WriteVisible ==
    [][(WeRose /\ _oe' = 0) => data_out' = data_in']_vars

\* A cell that held a non-zero value is overwritten by another non-zero
\* value with the output enabled, and the bus shows the new value.
C19_Witness ==
    /\ _we = 1 /\ _oe = 0
    /\ commit_oe = {0}
    /\ \E c \in Cells \ {addr} : mem[c] # 0 /\ mem[c] # data_in
    /\ data_in # 0
    /\ last_write[addr] = {data_in}
    /\ data_out = data_in

\* C20: a 0->1 transition of _we commits data_in at addr whether _oe is 0 or
\* 1, and a step that changes only _oe changes no cell.
C20_WriteNotGated ==
    [][/\ \A x \in Bit : (WeRose /\ _oe' = x) => mem'[addr'] = data_in'
       /\ (_oe' # _oe /\ _we' = _we /\ addr' = addr /\ data_in' = data_in)
              => mem' = mem]_vars

\* Commits have happened at both levels of _oe and both values are stored.
C20_Witness ==
    /\ commit_oe = {0, 1}
    /\ \E b, c \in Cells :
          /\ b # c
          /\ mem[b] # 0 /\ mem[c] # 0
          /\ last_write[b] = {mem[b]}
          /\ last_write[c] = {mem[c]}

----------------------------------------------------------------------------
\* RAM and EEPROM side by side (checked under PairSpec)

\* C16: driven with the same port values from the same initial state, the
\* SRam and the EEProm hold the same cells and show the same output.
C16_Equivalent ==
    /\ rom_mem = mem
    /\ io_out = data_out

\* Both have stored a value and are reading it.
C16_Witness ==
    /\ rom_oe = 0 /\ rom_we = 1
    /\ io_out # 0
    /\ io_out = data_out
    /\ rom_mem[a] = io_out
    /\ io_in # io_out

----------------------------------------------------------------------------
\* Construction (checked under CtorSpec)

\* The widths the constructors are meant to accept.
WidthsValid ==
    /\ ctor_args[1] > 0
    /\ ctor_cls \in MemClasses =>
          (ctor_args[2] > 0 /\ ctor_args[2] <= Ceiling(ctor_cls))

\* C14: a construction with data_bits <= 0, addr_bits <= 0 or addr_bits above
\* the ceiling (bits <= 0 for the latch) fails, and fails with no port and no
\* storage created; a construction with widths inside the bounds never fails.
C14_ConstructionErrors ==
    /\ ctor_pc = "raised" => (ctor_ports = {} /\ ~ctor_mem /\ ~WidthsValid)
    /\ ~WidthsValid =>
          (/\ ctor_pc \in {"assert_data", "assert_addr", "assert_max", "raised"}
           /\ ctor_ports = {} /\ ~ctor_mem)
    /\ ctor_pc = "done" =>
          (/\ WidthsValid
           /\ ctor_ports = (IF ctor_cls \in MemClasses THEN MemPorts ELSE LatchPorts)
           /\ ctor_mem = (ctor_cls \in MemClasses))

\* A memory with addr_bits = 0 has been rejected with nothing created.
C14_Witness ==
    /\ ctor_cls \in MemClasses
    /\ ctor_args[1] > 0 /\ ctor_args[2] = 0
    /\ ctor_pc = "raised"
    /\ ctor_ports = {} /\ ~ctor_mem

----------------------------------------------------------------------------
\* The netlist-emission mode (checked under MainSpec)

\* The files whose formal() verifies nothing: three are `assert False`, SRam.py
\* is a TODO.
Unverified == {"SRam.py", "sram.py", "eeprom.py", "transparent_latch.py"}

\* C15: in "gen" mode a file without formal verification ends in a failure
\* right at formal(): no design is returned, nothing is converted and its
\* netlist file is never written.
C15_UnimplementedFails ==
    /\ (main_file \in Unverified /\ main_pc # "idle" /\ main_argv # <<>>
           /\ main_argv[1] = "gen")
          => (/\ main_pc \in {"args", "formal", "raised"}
              /\ ~main_design)
    /\ \A f \in Unverified : Netlist(f) \notin written

\* SRam.py run in "gen" mode has failed, while TransparentLatch.py has
\* written its netlist before.
C15_Witness ==
    /\ main_file = "SRam.py"
    /\ main_argv = <<"gen">>
    /\ main_pc = "raised"
    /\ written = {"out/TransparentLatch.il"}

----------------------------------------------------------------------------
\* Power-on state of the SRam (checked under Spec)

\* C21: before the first stretch of the process every input port is 0, so
\* _we = 0 and data_out = 0, and a first stretch that sets _we to 1 is a
\* 0->1 transition that commits data_in at addr, no stretch having left _we
\* at 0 before.
C21_PowerOnEdge ==
    [][scen = {0} =>
          /\ addr = 0 /\ data_in = 0 /\ _oe = 0 /\ _we = 0
          /\ data_out = 0
          /\ ~we_low
          /\ _we' = 1 => mem' = [mem EXCEPT ![addr'] = data_in']]_vars

\* A non-zero value stored at a non-zero address although _we was never left
\* at 0 by the process.
C21_Witness ==
    /\ ~we_low
    /\ _we = 1
    /\ \E c \in Cells \ {0} :
          /\ mem[c] # 0
          /\ last_write[c] = {mem[c]}
          /\ \A b \in Cells \ {c} : last_write[b] = {} /\ mem[b] = 0

====
